---- MODULE Spec2Model ----
(***************************************************************************)
(* Model of the SHT31 Matter sensor application (src/src/app_task.cpp):    *)
(* the sensor worker thread (grace period, acquire, convert, publish,      *)
(* sleep), the simulated and the hardware sensor back ends, the float32    *)
(* arithmetic the code performs, and AppTask::Init on the main thread.     *)
(***************************************************************************)
EXTENDS Integers, Sequences, FiniteSets, TLC

(***************************************************************************)
(* Bounds of the model.                                                    *)
(***************************************************************************)
\* publish attempts explored per run of the worker in simulated mode
MaxTicks == 305
\* publish attempts explored per run of the worker in the other configurations
MaxRealTicks == 3
\* latest time (seconds after boot) at which AppTask::Init may begin
MaxBootDelay == 1

(***************************************************************************)
(* Program constants.                                                      *)
(***************************************************************************)
SENSOR_UPDATE_PERIOD_MS == 10000
GRACE_PERIOD_S == 5
kEndpointId == 1
INT16_MAX == 32767
UINT16_MAX == 65535

VARIABLES
    useVirtual,       \* CONFIG_USE_VIRTUAL_SENSOR_DATA is defined
    useReal,          \* CONFIG_USE_REAL_SENSOR_DATA is defined
    pcMain,           \* position of the main thread in StartApp / Init
    initResult,       \* what AppTask::Init returned: "none", "ok", "error"
    serverStarted,    \* Nrf::Matter::StartServer has returned successfully
    handlePresent,    \* what DEVICE_DT_GET_ONE yields: a device or NULL
    devReady,         \* what device_is_ready answers for the device
    sht31_dev,        \* the static device handle: "NULL" or "DEV"
    sensorInitResult, \* what sensor_device_init returned: "none", "true", "false"
    nThreads,         \* number of sensor worker threads created
    pcWorker,         \* position of the sensor worker in sensor_thread_func
    temperatureC,     \* the worker's local float temperatureC
    humidityRH,       \* the worker's local float humidityRH
    fetchResult,      \* this tick's acquisition path
    lastReading,      \* the channel values read in this tick, or NoReading
    tempValue,        \* int16_t tempValue of UpdateTemperatureHumidity
    humValue,         \* uint16_t humValue of UpdateTemperatureHumidity
    statusTemp,       \* Status returned by the temperature Set
    statusHum,        \* Status returned by the humidity Set
    tempLog,          \* what was logged for the temperature write
    humLog,           \* what was logged for the humidity write
    setEndpoint,      \* endpoint passed to the latest Set call
    nTick,            \* number of GetSensorData calls made
    nTempSet,         \* number of temperature Set calls made
    nHumSet,          \* number of humidity Set calls made
    earlyWrite,       \* a Set call was issued while the server was not started
    now,              \* the clock, in milliseconds
    startTime         \* the time at which the worker was started

vars == << useVirtual, useReal, pcMain, initResult, serverStarted, handlePresent,
           devReady, sht31_dev, sensorInitResult, nThreads, pcWorker,
           temperatureC, humidityRH, fetchResult, lastReading, tempValue,
           humValue, statusTemp, statusHum, tempLog, humLog, setEndpoint, nTick,
           nTempSet, nHumSet, earlyWrite, now, startTime >>

mainVars == << pcMain, initResult, serverStarted, sht31_dev, sensorInitResult,
               nThreads >>
envVars == << useVirtual, useReal, handlePresent, devReady >>
sampleVars == << temperatureC, humidityRH, fetchResult, lastReading >>
publishVars == << tempValue, humValue, statusTemp, statusHum, tempLog, humLog,
                  setEndpoint, nTempSet, nHumSet, earlyWrite >>

(***************************************************************************)
(* IEEE-754 binary32 arithmetic on non-negative values.  A float is a      *)
(* record [m, e] standing for m * 2^e, with m = 0 (zero) or                *)
(* 2^23 <= m < 2^24 (normalised).  Every operation rounds its exact        *)
(* result to nearest, ties to even, as the FPU does.  The arithmetic is    *)
(* written as functions so that arguments are evaluated once.              *)
(***************************************************************************)
Float == [m : Nat, e : Int]

Pow2F[n \in Nat] == IF n = 0 THEN 1 ELSE 2 * Pow2F[n - 1]

Pow2(n) == Pow2F[IF n <= 0 THEN 0 ELSE n]

BitLenF[n \in Nat] == IF n = 0 THEN 0 ELSE 1 + BitLenF[n \div 2]

BitLen(n) == BitLenF[n]

FZero == [m |-> 0, e |-> 0]

\* x = <<sig, e, sticky, n>>, n the bit length of sig, n > 24: sig * 2^e
\* (plus a non-zero amount below one unit of sig when sticky) rounded to 24
\* bits, nearest, ties to even
FRoundBits[x \in Nat \X Int \X BOOLEAN \X Nat] ==
    LET sig  == x[1]
        k    == x[4] - 24
        q    == sig \div Pow2(k)
        r    == sig % Pow2(k)
        half == Pow2(k - 1)
        up   == \/ r > half
                \/ r = half /\ x[3]
                \/ r = half /\ ~x[3] /\ q % 2 = 1
    IN IF up
       THEN IF q + 1 = Pow2(24) THEN [m |-> Pow2(23), e |-> x[2] + k + 1]
                                ELSE [m |-> q + 1, e |-> x[2] + k]
       ELSE [m |-> q, e |-> x[2] + k]

\* x = <<sig, e, sticky, n>>: sig * 2^e as a float
FRoundF[x \in Nat \X Int \X BOOLEAN \X Nat] ==
    IF x[1] = 0 THEN FZero
    ELSE IF x[4] <= 24
         THEN [m |-> x[1] * Pow2(24 - x[4]), e |-> x[2] - (24 - x[4])]
         ELSE FRoundBits[x]

FRoundN[x \in Nat \X Int \X BOOLEAN] == FRoundF[<<x[1], x[2], x[3], BitLenF[x[1]]>>]

\* sig * 2^e (plus a non-zero amount below one unit of sig when sticky)
\* rounded to a float: nearest, ties to even.
FRound(sig, e, sticky) == FRoundN[<<sig, e, sticky>>]

\* (float)n for an int n >= 0
FFromInt(n) == FRound(n, 0, FALSE)

\* x = <<hi, lo>>, hi.e >= lo.e, both non-zero: hi + lo in float, with three
\* guard bits and a sticky bit for what lo loses in the alignment
FAddAligned[x \in Float \X Float] ==
    LET hi == x[1]
        lo == x[2]
        d  == hi.e - lo.e
        sh == d - 3
        ls == IF d <= 3 THEN lo.m * Pow2(3 - d)
              ELSE IF sh >= 25 THEN 0
              ELSE lo.m \div Pow2(sh)
        st == IF d <= 3 THEN FALSE
              ELSE IF sh >= 25 THEN TRUE
              ELSE lo.m % Pow2(sh) # 0
    IN FRound(hi.m * 8 + ls, hi.e - 3, st)

FAddF[x \in Float \X Float] ==
    IF x[1].m = 0 THEN x[2]
    ELSE IF x[2].m = 0 THEN x[1]
    ELSE IF x[1].e >= x[2].e THEN FAddAligned[x]
    ELSE FAddAligned[<<x[2], x[1]>>]

\* a + b in float
FAdd(a, b) == FAddF[<<a, b>>]

FMulIntF[x \in Float \X Nat] == FRound(x[1].m * x[2], x[1].e, FALSE)

\* a * n in float, n a small int (the code multiplies by 100)
FMulInt(a, n) == FMulIntF[<<a, n>>]

\* x = <<rem, den, q, steps>>: long division, the quotient bits of rem / den
\* and the final remainder
DivBitsF[x \in Nat \X Nat \X Nat \X Nat] ==
    LET bit == IF x[1] >= x[2] THEN 1 ELSE 0
        r2  == x[1] - bit * x[2]
    IN IF x[4] = 0 THEN <<2 * x[3] + bit, r2>>
       ELSE DivBitsF[<<2 * r2, x[2], 2 * x[3] + bit, x[4] - 1>>]

DivBits(rem, den, q, steps) == DivBitsF[<<rem, den, q, steps>>]

FDivF[x \in Float \X Float \X (Nat \X Nat)] ==
    FRound(x[3][1], x[1].e - x[2].e - 26, x[3][2] # 0)

\* a / b in float, b # 0
FDiv(a, b) ==
    IF a.m = 0 THEN FZero
    ELSE FDivF[<<a, b, DivBits(a.m, b.m, 0, 26)>>]

\* a > b, a <= b
FGtF[x \in Float \X Float] ==
    IF x[1].m = 0 THEN FALSE
    ELSE IF x[2].m = 0 THEN TRUE
    ELSE x[1].e > x[2].e \/ (x[1].e = x[2].e /\ x[1].m > x[2].m)

FGt(a, b) == FGtF[<<a, b>>]

FLe(a, b) == ~FGt(a, b)

FTruncF[a \in Float] ==
    IF a.m = 0 THEN 0
    ELSE IF a.e >= 0 THEN a.m * Pow2(a.e)
    ELSE IF 0 - a.e >= 24 THEN 0
    ELSE a.m \div Pow2(0 - a.e)

\* the integer part of a (truncation toward zero), a < 2^30
FTrunc(a) == FTruncF[a]

\* the literal 0.1f: the float nearest to 1/10
F01 == FDiv(FFromInt(1), FFromInt(10))

(***************************************************************************)
(* Simulated source.                                                       *)
(***************************************************************************)
\* x = <<v, hi, lo>>: if (v > hi) v = lo;
WrapAbove[x \in Float \X Float \X Float] ==
    IF FGt(x[1], x[2]) THEN x[3] ELSE x[1]

\* variant: the ramp is never reset
ReadTemperatureNoReset(t) == FAdd(t, F01)

\* variant: the ramp sticks at the upper bound instead of wrapping
ReadTemperatureSaturating(t) ==
    WrapAbove[<<FAdd(t, F01), FFromInt(30), FFromInt(30)>>]

ReadTemperatureSensorVirtual(t) ==
    WrapAbove[<<FAdd(t, F01), FFromInt(30), FFromInt(20)>>]

ReadHumiditySensorVirtual(h) ==
    WrapAbove[<<FAdd(h, F01), FFromInt(60), FFromInt(40)>>]


\* variant: a temperature wrap also restarts the humidity ramp
GetVirtualSensorDataCoupled(t, h) ==
    << ReadTemperatureSensorVirtual(t),
       IF ReadTemperatureSensorVirtual(t) = FFromInt(20)
       THEN FFromInt(40)
       ELSE ReadHumiditySensorVirtual(h) >>

GetVirtualSensorData(t, h) ==
    << ReadTemperatureSensorVirtual(t), ReadHumiditySensorVirtual(h) >>

(***************************************************************************)
(* Hardware source.  A channel value is val1 + val2 / 1000000 (struct      *)
(* sensor_value); the model draws the readings of a fetch from Readings    *)
(* (non-negative values only).                                             *)
(***************************************************************************)
NoReading == [t1 |-> 0, t2 |-> 0, h1 |-> 0, h2 |-> 0]

Readings ==
    { [t1 |-> 25, t2 |-> 340000, h1 |-> 48, h2 |-> 750000],
      [t1 |-> 25, t2 |-> 348000, h1 |-> 55, h2 |-> 5000],
      [t1 |-> 30, t2 |-> 0,      h1 |-> 60, h2 |-> 0],
      [t1 |-> 400, t2 |-> 0,     h1 |-> 700, h2 |-> 0] }

\* val1 + (val2 / 1000000.0f)
ChannelToFloat(val1, val2) ==
    FAdd(FFromInt(val1), FDiv(FFromInt(val2), FFromInt(1000000)))

\* the fallback sample of GetRealSensorData
FallbackSample == << FFromInt(20), FFromInt(40) >>

(***************************************************************************)
(* Conversion to the 0.01 units of the Matter attributes.  A float to      *)
(* integer cast truncates; when the truncated value does not fit the       *)
(* target type the cast is undefined and the build may saturate or wrap.   *)
(***************************************************************************)
Scale100(x) == FTrunc(FMulInt(x, 100))

CastInt16(v) ==
    IF v <= INT16_MAX THEN {v}
    ELSE {INT16_MAX, ((v + 32768) % 65536) - 32768}

CastUint16(v) ==
    IF v <= UINT16_MAX THEN {v}
    ELSE {UINT16_MAX, v % 65536}

Status == {"Success", "Failure"}

\* what UpdateTemperatureHumidity logs for a returned status
LogFor(st) == IF st # "Success" THEN "failed" ELSE "updated"

\* variant: UpdateTemperatureHumidity returns when the temperature Set failed
AfterTemperatureSetAbort(st) == IF st # "Success" THEN "sleep" ELSE "setHum"

\* variant: a failed temperature Set is attempted again in the same tick
AfterTemperatureSetRetry(st) == IF st # "Success" THEN "setTemp" ELSE "setHum"

\* where UpdateTemperatureHumidity continues after the temperature Set
AfterTemperatureSet(st) == "setHum"

(***************************************************************************)
(* Initial state: one of the four settings of the two configuration        *)
(* macros, the device as the environment provides it, nothing started.     *)
(***************************************************************************)
Init ==
    /\ useVirtual \in BOOLEAN
    /\ useReal \in BOOLEAN
    /\ pcMain = IF useVirtual /\ useReal THEN "build_error" ELSE "PrepareServer"
    /\ initResult = "none"
    /\ serverStarted = FALSE
    /\ handlePresent \in (IF useReal /\ ~useVirtual THEN BOOLEAN ELSE {TRUE})
    /\ devReady \in (IF useReal /\ ~useVirtual /\ handlePresent THEN BOOLEAN ELSE {FALSE})
    /\ sht31_dev = "NULL"
    /\ sensorInitResult = "none"
    /\ nThreads = 0
    /\ pcWorker = "none"
    /\ temperatureC = FFromInt(25)
    /\ humidityRH = FFromInt(50)
    /\ fetchResult = "none"
    /\ lastReading = NoReading
    /\ tempValue = 0
    /\ humValue = 0
    /\ statusTemp = "none"
    /\ statusHum = "none"
    /\ tempLog = "none"
    /\ humLog = "none"
    /\ setEndpoint = 0
    /\ nTick = 0
    /\ nTempSet = 0
    /\ nHumSet = 0
    /\ earlyWrite = FALSE
    /\ now \in { 1000 * d : d \in 0..MaxBootDelay }
    /\ startTime = 0

(***************************************************************************)
(* Main thread: AppTask::StartApp and AppTask::Init.                       *)
(***************************************************************************)
InitFails ==
    /\ initResult' = "error"
    /\ pcMain' = "Exited"

PrepareServer ==
    /\ pcMain = "PrepareServer"
    /\ \/ /\ pcMain' = "BoardInit"
          /\ UNCHANGED initResult
       \/ InitFails
    /\ UNCHANGED << serverStarted, sht31_dev, sensorInitResult, nThreads >>
    /\ UNCHANGED << envVars, sampleVars, publishVars, pcWorker, nTick, now, startTime >>

\* variant: the worker is created before the board initialisation is checked
BoardInitAfterThreadCreate ==
    /\ pcMain = "BoardInit"
    /\ \/ /\ pcMain' = IF useReal THEN "SensorInit" ELSE "ThreadCreate"
          /\ UNCHANGED << initResult, nThreads, pcWorker, startTime >>
       \/ /\ InitFails
          /\ nThreads' = nThreads + 1
          /\ pcWorker' = "grace"
          /\ startTime' = now
    /\ UNCHANGED << serverStarted, sht31_dev, sensorInitResult >>
    /\ UNCHANGED << envVars, sampleVars, publishVars, nTick, now >>

BoardInit ==
    /\ pcMain = "BoardInit"
    /\ \/ /\ pcMain' = IF useReal THEN "SensorInit" ELSE "ThreadCreate"
          /\ UNCHANGED initResult
       \/ InitFails
    /\ UNCHANGED << serverStarted, sht31_dev, sensorInitResult, nThreads >>
    /\ UNCHANGED << envVars, sampleVars, publishVars, pcWorker, nTick, now, startTime >>

\* variant: AppTask::Init returns an error when sensor_device_init fails
sensor_device_init_fatal ==
    /\ pcMain = "SensorInit"
    /\ sht31_dev' = IF handlePresent THEN "DEV" ELSE "NULL"
    /\ \/ /\ ~(handlePresent /\ devReady)
          /\ sensorInitResult' = "false"
          /\ InitFails
       \/ /\ handlePresent /\ devReady
          /\ sensorInitResult' = "false"
          /\ InitFails
       \/ /\ handlePresent /\ devReady
          /\ sensorInitResult' = "true"
          /\ pcMain' = "ThreadCreate"
          /\ UNCHANGED initResult
    /\ UNCHANGED << serverStarted, nThreads >>
    /\ UNCHANGED << envVars, sampleVars, publishVars, pcWorker, nTick, now, startTime >>

sensor_device_init ==
    /\ pcMain = "SensorInit"
    /\ sht31_dev' = IF handlePresent THEN "DEV" ELSE "NULL"
    /\ \/ /\ ~handlePresent
          /\ sensorInitResult' = "false"
       \/ /\ handlePresent /\ ~devReady
          /\ sensorInitResult' = "false"
       \/ /\ handlePresent /\ devReady
          /\ sensorInitResult' \in {"false", "true"}
    /\ pcMain' = "ThreadCreate"
    /\ UNCHANGED << initResult, serverStarted, nThreads >>
    /\ UNCHANGED << envVars, sampleVars, publishVars, pcWorker, nTick, now, startTime >>

ThreadCreate ==
    /\ pcMain = "ThreadCreate"
    /\ nThreads' = nThreads + 1
    /\ pcWorker' = "grace"
    /\ startTime' = now
    /\ pcMain' = "RegisterEventHandler"
    /\ UNCHANGED << initResult, serverStarted, sht31_dev, sensorInitResult >>
    /\ UNCHANGED << envVars, sampleVars, publishVars, nTick, now >>

RegisterEventHandler ==
    /\ pcMain = "RegisterEventHandler"
    /\ \/ /\ pcMain' = "StartServer"
          /\ UNCHANGED initResult
       \/ InitFails
    /\ UNCHANGED << serverStarted, sht31_dev, sensorInitResult, nThreads >>
    /\ UNCHANGED << envVars, sampleVars, publishVars, pcWorker, nTick, now, startTime >>

StartServer ==
    /\ pcMain = "StartServer"
    /\ \/ /\ serverStarted' = TRUE
          /\ initResult' = "ok"
          /\ pcMain' = "Dispatch"
       \/ /\ InitFails
          /\ UNCHANGED serverStarted
    /\ UNCHANGED << sht31_dev, sensorInitResult, nThreads >>
    /\ UNCHANGED << envVars, sampleVars, publishVars, pcWorker, nTick, now, startTime >>

DispatchNextTask ==
    /\ pcMain = "Dispatch"
    /\ UNCHANGED vars

Main ==
    \/ PrepareServer
    \/ BoardInit
    \/ sensor_device_init
    \/ ThreadCreate
    \/ RegisterEventHandler
    \/ StartServer
    \/ DispatchNextTask

(***************************************************************************)
(* Sensor worker: sensor_thread_func.  The clock advances only while the   *)
(* worker sleeps (the pipeline itself takes no time); the main thread's    *)
(* steps interleave with the worker's at any point.                        *)
(***************************************************************************)
\* ticks the model explores in the present configuration
TickCap == IF useVirtual THEN MaxTicks ELSE MaxRealTicks

\* variant: the worker enters the loop without the start-up sleep
GracePeriodSkipped ==
    /\ pcWorker = "grace"
    /\ pcWorker' = "acquire"
    /\ UNCHANGED << mainVars, envVars, sampleVars, publishVars, nTick, now, startTime >>

\* k_sleep(K_SECONDS(5)) before the loop
GracePeriod ==
    /\ pcWorker = "grace"
    /\ now' = now + 1000 * GRACE_PERIOD_S
    /\ pcWorker' = "acquire"
    /\ UNCHANGED << mainVars, envVars, sampleVars, publishVars, nTick, startTime >>

\* GetRealSensorData
GetRealSensorData ==
    \/ /\ sht31_dev = "NULL"
       /\ temperatureC' = FallbackSample[1]
       /\ humidityRH' = FallbackSample[2]
       /\ fetchResult' = "no_device"
       /\ lastReading' = NoReading
    \/ /\ sht31_dev # "NULL"
       /\ fetchResult' = "fetch_failed"
       /\ lastReading' = NoReading
       /\ UNCHANGED << temperatureC, humidityRH >>
    \/ /\ sht31_dev # "NULL"
       /\ \E r \in Readings :
            /\ temperatureC' = ChannelToFloat(r.t1, r.t2)
            /\ humidityRH' = ChannelToFloat(r.h1, r.h2)
            /\ lastReading' = r
       /\ fetchResult' = "fetched"

\* GetSensorData: the back ends the configuration compiles in
GetSensorData ==
    /\ pcWorker = "acquire"
    /\ nTick < TickCap
    /\ \/ /\ useVirtual
          /\ temperatureC' = GetVirtualSensorData(temperatureC, humidityRH)[1]
          /\ humidityRH' = GetVirtualSensorData(temperatureC, humidityRH)[2]
          /\ fetchResult' = "virtual"
          /\ UNCHANGED lastReading
       \/ /\ useReal
          /\ GetRealSensorData
       \/ /\ ~useVirtual /\ ~useReal
          /\ fetchResult' = "no_backend"
          /\ UNCHANGED << temperatureC, humidityRH, lastReading >>
    /\ nTick' = nTick + 1
    /\ pcWorker' = "setTemp"
    /\ UNCHANGED << mainVars, envVars, publishVars, now, startTime >>

\* UpdateTemperatureHumidity up to the log of the temperature write
SetTemperature ==
    /\ pcWorker = "setTemp"
    /\ tempValue' \in CastInt16(Scale100(temperatureC))
    /\ humValue' \in CastUint16(Scale100(humidityRH))
    /\ statusTemp' \in Status
    /\ tempLog' = LogFor(statusTemp')
    /\ setEndpoint' = kEndpointId
    /\ nTempSet' = nTempSet + 1
    /\ earlyWrite' = (earlyWrite \/ ~serverStarted)
    /\ pcWorker' = AfterTemperatureSet(statusTemp')
    /\ UNCHANGED << statusHum, humLog, nHumSet >>
    /\ UNCHANGED << mainVars, envVars, sampleVars, nTick, now, startTime >>

\* variant: the loop starts the next acquisition without the period sleep
SetHumidityNoSleep ==
    /\ pcWorker = "setHum"
    /\ statusHum' \in Status
    /\ humLog' = LogFor(statusHum')
    /\ setEndpoint' = kEndpointId
    /\ nHumSet' = nHumSet + 1
    /\ earlyWrite' = (earlyWrite \/ ~serverStarted)
    /\ pcWorker' = "acquire"
    /\ UNCHANGED << tempValue, humValue, statusTemp, tempLog, nTempSet >>
    /\ UNCHANGED << mainVars, envVars, sampleVars, nTick, now, startTime >>

\* UpdateTemperatureHumidity from the humidity write to its return
SetHumidity ==
    /\ pcWorker = "setHum"
    /\ statusHum' \in Status
    /\ humLog' = LogFor(statusHum')
    /\ setEndpoint' = kEndpointId
    /\ nHumSet' = nHumSet + 1
    /\ earlyWrite' = (earlyWrite \/ ~serverStarted)
    /\ pcWorker' = "sleep"
    /\ UNCHANGED << tempValue, humValue, statusTemp, tempLog, nTempSet >>
    /\ UNCHANGED << mainVars, envVars, sampleVars, nTick, now, startTime >>

\* variant: the loop is left after a tick in which a write failed
SleepPeriodBreak ==
    /\ pcWorker = "sleep"
    /\ now' = now + SENSOR_UPDATE_PERIOD_MS
    /\ pcWorker' = IF statusTemp # "Success" \/ statusHum # "Success"
                   THEN "exit" ELSE "acquire"
    /\ tempValue' = 0
    /\ humValue' = 0
    /\ statusTemp' = "none"
    /\ statusHum' = "none"
    /\ tempLog' = "none"
    /\ humLog' = "none"
    /\ UNCHANGED << setEndpoint, nTempSet, nHumSet, earlyWrite >>
    /\ UNCHANGED << mainVars, envVars, sampleVars, nTick, startTime >>

\* k_sleep(K_MSEC(SENSOR_UPDATE_PERIOD_MS)) and the jump back to the loop head
SleepPeriod ==
    /\ pcWorker = "sleep"
    /\ now' = now + SENSOR_UPDATE_PERIOD_MS
    /\ pcWorker' = "acquire"
    /\ tempValue' = 0
    /\ humValue' = 0
    /\ statusTemp' = "none"
    /\ statusHum' = "none"
    /\ tempLog' = "none"
    /\ humLog' = "none"
    /\ UNCHANGED << setEndpoint, nTempSet, nHumSet, earlyWrite >>
    /\ UNCHANGED << mainVars, envVars, sampleVars, nTick, startTime >>

Worker ==
    \/ GracePeriod
    \/ GetSensorData
    \/ SetTemperature
    \/ SetHumidity
    \/ SleepPeriod

Next == Main \/ Worker

Spec == Init /\ [][Next]_vars

\* the scheduler runs the worker whenever it can take a step
LiveSpec == Init /\ [][Next]_vars /\ WF_vars(Worker)

(***************************************************************************)
(* Vocabulary of the properties.                                           *)
(***************************************************************************)
Simulated == useVirtual /\ ~useReal
Hardware == useReal /\ ~useVirtual

\* the worker holds the sample of the current tick
InTick == pcWorker \in {"setTemp", "setHum", "sleep"}

\* UpdateTemperatureHumidity has converted the sample of the current tick
Converted == pcWorker \in {"setHum", "sleep"}

\* round(x * 100) in exact arithmetic, ties away from zero (x a float, x.e < 0)
RoundNearest100F[x \in Float] ==
    LET n == x.m * 100
        d == Pow2(0 - x.e)
        q == n \div d
        r == n % d
    IN IF 2 * r >= d THEN q + 1 ELSE q

RoundNearest100(x) == RoundNearest100F[x]

InBand(x, lo, hi) == FLe(FFromInt(lo), x) /\ FLe(x, FFromInt(hi))

(***************************************************************************)
(* Properties.                                                             *)
(***************************************************************************)

\* C1: in simulated mode, from the initial values 25.0 and 50.0, after any
\* number of GetVirtualSensorData calls the sample satisfies
\* 20.0 <= temperatureC <= 30.0 and 40.0 <= humidityRH <= 60.0.
C1_SimulatedBand ==
    Simulated => /\ InBand(temperatureC, 20, 30)
                 /\ InBand(humidityRH, 40, 60)

\* both ramps have wrapped: the humidity has just been reset to 40.0
C1_Witness ==
    /\ Simulated
    /\ nTick = 101
    /\ humidityRH = FFromInt(40)
    /\ FGt(temperatureC, FFromInt(25))

\* C2 as stated: the temperature is exactly 30.0 after the 50th call (no wrap
\* yet) and back at 20.0 after the 51st call.
C2_Original ==
    Simulated => /\ (nTick = 50 => temperatureC = FFromInt(30))
                 /\ (nTick = 51 => temperatureC = FFromInt(20))

\* C2 amended: in float arithmetic the value incremented by the 50th call
\* strictly exceeds 30.0, so the 50th call already resets the temperature to
\* 20.0; the value 30.0 is never produced in the first 51 calls, and after
\* the 51st call the temperature is 20.0 + 0.1f.
C2_WrapOnFiftiethCall ==
    Simulated =>
        /\ (nTick = 49 => /\ FLe(temperatureC, FFromInt(30))
                          /\ FGt(FAdd(temperatureC, F01), FFromInt(30)))
        /\ (nTick = 50 => temperatureC = FFromInt(20))
        /\ (nTick = 51 => temperatureC = FAdd(FFromInt(20), F01))
        /\ (nTick <= 51 => temperatureC # FFromInt(30))

C2_Witness ==
    /\ Simulated
    /\ nTick = 51
    /\ pcWorker = "setTemp"
    /\ temperatureC = FAdd(FFromInt(20), F01)

\* C3: for every temperature x with 20.0 <= x <= 30.0 the value passed to the
\* temperature attribute is round(x * 100), ties away from zero (so that
\* value / 100 is within 0.005 of x); likewise the humidity value is
\* round(humidityRH * 100).
C3_RoundsToNearest ==
    Converted =>
        /\ (InBand(temperatureC, 20, 30)
              => tempValue = RoundNearest100(temperatureC))
        /\ (InBand(humidityRH, 40, 60)
              => humValue = RoundNearest100(humidityRH))

\* C4: in simulated mode the value written to the temperature attribute is
\* 100 times the sample temperature (to the nearest integer) and lies in
\* 2000..3000, and the value written to the humidity attribute is 100 times
\* the sample humidity (to the nearest integer) and lies in 4000..6000.
C4_SimulatedExactCenti ==
    (Simulated /\ Converted) =>
        /\ tempValue = RoundNearest100(temperatureC)
        /\ tempValue \in 2000..3000
        /\ humValue = RoundNearest100(humidityRH)
        /\ humValue \in 4000..6000

\* C5: in hardware mode, whenever the device handle is absent or the device
\* is not ready, the sample produced for the tick is exactly {20.0, 40.0}.
C5_FallbackWhenUnavailable ==
    (Hardware /\ InTick /\ (sht31_dev = "NULL" \/ ~devReady)) =>
        /\ temperatureC = FFromInt(20)
        /\ humidityRH = FFromInt(40)

\* C6: in hardware mode with a usable device, a tick whose sample fetch fails
\* produces and publishes the fallback sample {20.0, 40.0}; a tick whose
\* fetch succeeds produces the freshly read values.
C6_FallbackOnFetchFailure ==
    (Hardware /\ InTick /\ sht31_dev # "NULL" /\ devReady) =>
        /\ (fetchResult = "fetch_failed" =>
              /\ temperatureC = FFromInt(20)
              /\ humidityRH = FFromInt(40)
              /\ (Converted => tempValue = 2000 /\ humValue = 4000))
        /\ (fetchResult = "fetched" =>
              /\ temperatureC = ChannelToFloat(lastReading.t1, lastReading.t2)
              /\ humidityRH = ChannelToFloat(lastReading.h1, lastReading.h2))

\* C7: in every tick, whatever statuses the attribute store returns, the
\* humidity Set is attempted even when the temperature Set failed, and what
\* is reported for each attribute depends only on that attribute's status.
C7_PublisherIsolation ==
    /\ (pcWorker = "setHum" => nTempSet = nTick /\ nHumSet = nTick - 1)
    /\ (pcWorker \in {"sleep", "acquire", "exit"} =>
            nTempSet = nTick /\ nHumSet = nTick)
    /\ (pcWorker = "sleep" =>
            /\ statusTemp \in Status /\ statusHum \in Status
            /\ (tempLog = "updated") = (statusTemp = "Success")
            /\ (tempLog = "failed") = (statusTemp # "Success")
            /\ (humLog = "updated") = (statusHum = "Success")
            /\ (humLog = "failed") = (statusHum # "Success"))

\* the temperature write failed, the humidity write was made and reported
C7_Witness ==
    /\ pcWorker = "sleep"
    /\ statusTemp = "Failure"
    /\ tempLog = "failed"
    /\ statusHum = "Success"
    /\ humLog = "updated"
    /\ nHumSet = nTempSet

\* C8: with the worker started at time T, no attribute write occurs before
\* T + 5 s, the k-th publish attempt (k = 0, 1, ...) occurs at
\* T + 5 s + k * 10 s, and one 10 s sleep lies between consecutive attempts.
C8_Cadence ==
    nThreads > 0 =>
        /\ (nTempSet + nHumSet > 0 => now >= startTime + 5000)
        /\ (pcWorker = "setTemp" => now = startTime + 5000 + 10000 * nTempSet)
        /\ (pcWorker = "setHum" => now = startTime + 5000 + 10000 * (nTempSet - 1))
        /\ (pcWorker = "sleep" => now = startTime + 5000 + 10000 * (nHumSet - 1))
        /\ (pcWorker = "acquire" => now = startTime + 5000 + 10000 * nTempSet)

\* the third publish attempt of a worker started at T = 1 s
C8_Witness ==
    /\ pcWorker = "setHum"
    /\ nTempSet = 3
    /\ startTime = 1000
    /\ now = 26000

\* C9: once the worker has been started, under fair scheduling every tick is
\* followed by another tick (within the ticks the model explores), for every
\* sequence of attribute-store statuses and of hardware outcomes, and the
\* worker has no terminal state.
C9_NeverHalts ==
    /\ [](pcWorker \in {"none", "grace", "acquire", "setTemp", "setHum", "sleep"})
    /\ (pcWorker = "grace") ~> (pcWorker = "setTemp")
    /\ (pcWorker = "sleep" /\ nTick < TickCap) ~> (pcWorker = "setTemp")

\* a second tick is reached in hardware mode after a tick in which the fetch
\* and both writes failed
C9_Witness ==
    /\ Hardware
    /\ nTick = 2
    /\ pcWorker = "sleep"
    /\ fetchResult = "fetch_failed"
    /\ statusTemp = "Failure"
    /\ statusHum = "Failure"

\* C10: the scheduler starts and performs ticks only when exactly one back
\* end is selected.
C10_ExactlyOneBackend ==
    (pcWorker # "none" \/ nThreads > 0 \/ nTick > 0) => (useVirtual # useReal)

\* C11: in every interleaving of the main thread and the sensor worker, no
\* attribute write is issued while the Matter stack is not started
\* (StartServer has not returned successfully), also when
\* RegisterEventHandler or StartServer fails or is slower than the grace
\* period.
C11_NoWriteBeforeServerStarted ==
    /\ ~earlyWrite
    /\ (nTempSet + nHumSet > 0 => serverStarted)

\* C12: in every tick, whatever statuses the attribute store returns, exactly
\* one Set call is issued for the temperature attribute and exactly one for
\* the humidity attribute, both on endpoint 1; a failed write is not
\* attempted again before the next tick, which writes that tick's sample.
C12_NoRetries ==
    /\ (pcWorker \in {"none", "grace"} => nTick = 0)
    /\ (pcWorker = "acquire" => nTempSet = nTick /\ nHumSet = nTick)
    /\ (pcWorker = "setTemp" => nTempSet = nTick - 1 /\ nHumSet = nTick - 1)
    /\ (pcWorker = "setHum" => nTempSet = nTick /\ nHumSet = nTick - 1)
    /\ (pcWorker = "sleep" => nTempSet = nTick /\ nHumSet = nTick)
    /\ (nTempSet + nHumSet > 0 => setEndpoint = 1)
    /\ (Converted => /\ tempValue \in CastInt16(Scale100(temperatureC))
                     /\ humValue \in CastUint16(Scale100(humidityRH)))

\* the second tick ends with both writes failed and two Set calls per attribute
C12_Witness ==
    /\ pcWorker = "sleep"
    /\ nTick = 2
    /\ statusTemp = "Failure"
    /\ statusHum = "Failure"
    /\ nTempSet = 2
    /\ nHumSet = 2
    /\ setEndpoint = 1

\* the smaller of two integers
MinOf(a, b) == IF a <= b THEN a ELSE b

\* C13: for any sample, including hardware readings outside the simulator
\* bands, the temperature value written is round(temperatureC * 100) clamped
\* to the int16 range and the humidity value written is
\* round(humidityRH * 100) clamped to the uint16 range: an out-of-range input
\* is clamped, never wrapped modulo 2^16.  (Stated so that it does not
\* depend on the rounding of in-range values: those may be the rounded or
\* the truncated value.)
C13_SaturatingConversion ==
    Converted =>
        /\ tempValue \in { MinOf(RoundNearest100(temperatureC), 32767),
                           MinOf(Scale100(temperatureC), 32767) }
        /\ humValue \in { MinOf(RoundNearest100(humidityRH), 65535),
                          MinOf(Scale100(humidityRH), 65535) }

\* the order of the worker's positions: start, grace sleep, then per tick
\* acquire, temperature write, humidity write, sleep
WorkerOrder ==
    { <<"none", "grace">>, <<"grace", "acquire">>, <<"acquire", "setTemp">>,
      <<"setTemp", "setHum">>, <<"setHum", "sleep">>, <<"sleep", "acquire">> }

\* C14: ticks are strictly sequential in a single worker: within each tick
\* the order is acquire, write temperature, write humidity, sleep; the
\* acquisition of the next tick starts only after the humidity write of the
\* present one has returned; exactly one worker thread is ever created; and
\* the sample state is modified only by the worker's acquisition step.
C14_SequentialTicks ==
    /\ [](nThreads <= 1)
    /\ [][ /\ (pcWorker' # pcWorker => <<pcWorker, pcWorker'>> \in WorkerOrder)
           /\ (nTick' # nTick =>
                 /\ pcWorker = "acquire" /\ pcWorker' = "setTemp"
                 /\ nTick' = nTick + 1
                 /\ nTempSet = nTick /\ nHumSet = nTick)
           /\ (nTempSet' # nTempSet => pcWorker = "setTemp" /\ nTempSet' = nTick)
           /\ (nHumSet' # nHumSet => pcWorker = "setHum" /\ nHumSet' = nTempSet)
           /\ (<<temperatureC', humidityRH'>> # <<temperatureC, humidityRH>>
                 => pcWorker = "acquire" /\ nTick' = nTick + 1)
           /\ (nThreads' # nThreads => nThreads = 0 /\ pcWorker = "none")
         ]_vars

\* the second acquisition has run, after the first tick's humidity write
C14_Witness ==
    /\ pcWorker = "setTemp"
    /\ nTick = 2
    /\ nTempSet = 1
    /\ nHumSet = 1
    /\ nThreads = 1

\* the main thread is past sensor_device_init
AfterSensorInit ==
    pcMain \in {"ThreadCreate", "RegisterEventHandler", "StartServer",
                "Dispatch", "Exited"}

\* C15: in hardware mode, whichever step of sensor_device_init fails (handle
\* lookup, readiness check or warm-up fetch), AppTask::Init goes on to create
\* the sensor worker, register the event handler and start the server; what
\* Init returns does not depend on the outcome of sensor_device_init; and the
\* initialisation is never run again.
C15_SensorInitNonFatal ==
    /\ []((Hardware /\ sensorInitResult # "none") =>
            /\ AfterSensorInit
            /\ (pcMain # "ThreadCreate" => nThreads = 1)
            /\ (pcMain = "ThreadCreate" => initResult = "none")
            /\ (initResult = "ok" => serverStarted /\ pcMain = "Dispatch"))
    /\ [][ /\ (pcMain = "SensorInit" /\ pcMain' # pcMain =>
                 /\ pcMain' = "ThreadCreate"
                 /\ sensorInitResult' \in {"true", "false"}
                 /\ initResult' = initResult)
           /\ (sensorInitResult # "none" => sensorInitResult' = sensorInitResult)
           /\ (pcMain' = "SensorInit" /\ pcMain' # pcMain => pcMain = "BoardInit")
         ]_vars

\* the warm-up fetch failed, and Init has still started the worker and the
\* server and returned success
C15_Witness ==
    /\ Hardware
    /\ handlePresent /\ devReady
    /\ sensorInitResult = "false"
    /\ nThreads = 1
    /\ serverStarted
    /\ initResult = "ok"
    /\ pcMain = "Dispatch"

\* C16: the sensor worker is created only after both PrepareServer and the
\* board initialisation have succeeded: if either fails, AppTask::Init
\* returns an error before k_thread_create, so no worker exists and no
\* attribute write is ever issued in that run.
C16_WorkerOnlyAfterBringUp ==
    /\ [](pcMain \in {"PrepareServer", "BoardInit", "SensorInit", "ThreadCreate"}
            => nThreads = 0)
    /\ [](nThreads = 0 =>
            pcWorker = "none" /\ nTick = 0 /\ nTempSet = 0 /\ nHumSet = 0)
    /\ [][ /\ (pcMain \in {"PrepareServer", "BoardInit"} /\ pcMain' = "Exited"
                 => initResult' = "error" /\ nThreads' = 0)
           /\ (pcMain = "Exited" => pcMain' = "Exited" /\ nThreads' = nThreads)
           /\ (nThreads' # nThreads => pcMain = "ThreadCreate")
         ]_vars

\* Init has returned an error before k_thread_create: no worker, no write
C16_Witness ==
    /\ pcMain = "Exited"
    /\ initResult = "error"
    /\ nThreads = 0
    /\ pcWorker = "none"
    /\ nTempSet = 0
    /\ nHumSet = 0

\* C17 as stated: the two simulated ramps are independent and in every tick
\* each value either increases by 0.1 or resets to its own low bound, giving
\* temperature a repeating cycle of 101 ticks and humidity one of 201 ticks.
\* Counted from the first reset of each ramp (tick 50 for temperature, tick
\* 101 for humidity), every later reset is a whole number of cycles away.
C17_Original ==
    Simulated =>
        /\ (temperatureC = FFromInt(20) => nTick % 101 = 50)
        /\ (humidityRH = FFromInt(40) => nTick % 201 = 101)

\* C17 amended: the ramps are independent; each tick adds the binary32
\* constant 0.1f to each value in binary32 arithmetic, or resets the value to
\* its own low bound when the sum exceeds its high bound; the temperature
\* resets exactly on ticks 50, 150, 250, ... (a cycle of 100 ticks) and the
\* humidity exactly on ticks 101, 302, ... (a cycle of 201 ticks).
C17_IndependentRamps ==
    /\ [](Simulated =>
            /\ (temperatureC = FFromInt(20) <=> nTick % 100 = 50)
            /\ (humidityRH = FFromInt(40) <=> nTick % 201 = 101))
    /\ [][ Simulated =>
             /\ (nTick' # nTick =>
                   /\ temperatureC' =
                        IF FGt(FAdd(temperatureC, F01), FFromInt(30))
                        THEN FFromInt(20)
                        ELSE FAdd(temperatureC, F01)
                   /\ humidityRH' =
                        IF FGt(FAdd(humidityRH, F01), FFromInt(60))
                        THEN FFromInt(40)
                        ELSE FAdd(humidityRH, F01))
             /\ (nTick' = nTick =>
                   temperatureC' = temperatureC /\ humidityRH' = humidityRH)
         ]_vars

\* second humidity reset, after three temperature resets, temperature mid-ramp
C17_Witness ==
    /\ Simulated
    /\ nTick = 302
    /\ humidityRH = FFromInt(40)
    /\ temperatureC # FFromInt(20)
    /\ FGt(temperatureC, FFromInt(25))

====
